---- MODULE Spec2Model ----
(***************************************************************************)
(* Model of cobra.summary.MetaboliteSummary                                *)
(* (src/src/cobra/summary/metabolite_summary.py).                          *)
(*                                                                         *)
(* Numbers.  Fluxes, bounds, coefficients, the tolerance and thresholds    *)
(* are floats in the program.  Here every quantity is a fixed-point number *)
(* with one binary fractional digit: the integer n stands for n/2, so a    *)
(* coefficient of 1 reads 1/2, of 2 reads 1 and of 4 reads 2.  Products    *)
(* are exact on the values used.  NaN (a cell the join leaves empty) is    *)
(* the empty tuple and a number x is <<x>> until the first comparison      *)
(* replaces it; a percentage is kept as the quotient num/den, den = 0      *)
(* being the non-finite result of 0/0.                                     *)
(***************************************************************************)
EXTENDS Integers, Sequences, FiniteSets, TLC

VARIABLES
    model,      \* the live model: tolerance, the metabolite, its coefficient in each reaction
    summary,    \* the MetaboliteSummary object, or NoSummary before construction
    args,       \* the arguments of the constructor call that built summary
    returned    \* the most recent render call: its arguments and the value it returned

vars == <<model, summary, args, returned>>

(* ------------------------------ bounds -------------------------------- *)
MaxFlux == 1        \* solver fluxes and variability bounds range over -MaxFlux..MaxFlux
MaxTol == 2         \* model.tolerance ranges over 1..MaxTol
MaxThreshold == 2   \* render thresholds range over 0..MaxThreshold

Fix(v) == 2 * v     \* the fixed-point representation of the integer v

Reactions == {1, 2}                   \* reaction identifiers, ordered by <
Coeffs == {-2, 1, 4}                  \* stoichiometric factors -1, 1/2, 2
Fluxes == {Fix(v) : v \in -MaxFlux..MaxFlux}
Tolerances == {Fix(t) : t \in 1..MaxTol}
Thresholds == {Fix(t) : t \in 0..MaxThreshold}
Names == {"glc", "glucose"}

NoSummary == [built |-> FALSE]
NoArgs == [given |-> FALSE]
NoCall == [format |-> "none"]

NaN == <<>>
Num(x) == <<x>>

(* ------------------------------ helpers ------------------------------- *)
Abs(x) == IF x < 0 THEN -x ELSE x

\* float multiplication of a fixed-point value by a fixed-point factor
Mul(x, factor) == (x * factor) \div 2

RECURSIVE SumAbs(_)
\* Series.abs().sum(): 0 on an empty series
SumAbs(rows) ==
    IF rows = <<>> THEN 0 ELSE Abs(Head(rows).flux) + SumAbs(Tail(rows))

RECURSIVE SortedIds(_)
\* sorted(..., key=attrgetter("id")) over the identifiers in S
SortedIds(S) ==
    IF S = {} THEN <<>>
    ELSE LET m == CHOOSE x \in S : \A y \in S : x <= y
         IN <<m>> \o SortedIds(S \ {m})

(* --------------------- the live model and its copies ------------------ *)
\* metabolite.reactions: the reactions in which the metabolite has a coefficient
MetaboliteReactions(m) == {r \in Reactions : m.coefficient[r] # 0}

\* [r.copy() for r in sorted(metabolite.reactions, key=attrgetter("id"))]
\* a copy holds the reaction's identifier, its coefficient for the metabolite and
\* its own copy of the metabolite (what build_reaction_string prints)
ReactionCopies(m) ==
    LET ids == SortedIds(MetaboliteReactions(m))
    IN [i \in 1..Len(ids) |->
          [id |-> ids[i],
           coefficient |-> m.coefficient[ids[i]],
           metabolite |-> m.metabolite]]

\* metabolite.copy()
MetaboliteCopy(m) == m.metabolite

(* ------------------------- _generate: flux table ---------------------- *)
\* one row of the basic flux table, scaled by the stoichiometric coefficient
BasicRow(r, solution) ==
    [reaction |-> r.id,
     flux |-> Mul(solution[r.id], r.coefficient),
     factor |-> r.coefficient]

\* flux.join(fva) for one cell: a left join, a reaction the frame lacks gets NaN
JoinCell(frame, id, k) ==
    IF frame[id] = <<>> THEN NaN ELSE Num(frame[id][k])

\* view.where(view.abs() >= model.tolerance, 0) for one cell: the comparison is
\* False on NaN, so NaN is replaced by 0 as well
Where(cell, tolerance) ==
    IF cell # NaN /\ Abs(cell[1]) >= tolerance THEN cell[1] ELSE 0

\* flux[["minimum", "maximum"]].mul(flux["factor"], axis=0) for one cell
ScaleBound(x, factor) == Mul(x, factor)

\* negative factors invert the minimum/maximum relationship: the cell that ends
\* in column "minimum" and the one that ends in column "maximum"
\* the minimum column left as scaled: no inversion
SwapMinimumNever(minimum, maximum, factor) == minimum

SwapMinimum(minimum, maximum, factor) == IF factor < 0 THEN maximum ELSE minimum

SwapMaximum(minimum, maximum, factor) == IF factor < 0 THEN minimum ELSE maximum

\* += 0 turns negative zero into positive zero; the integers have one zero
PlusZero(x) == x + 0

\* the branch taken when fva is not None: join, where, mul, swap, += 0
FvaRow(r, solution, frame, tolerance) ==
    LET basic == BasicRow(r, solution)
        lo == ScaleBound(Where(JoinCell(frame, r.id, 1), tolerance), r.coefficient)
        hi == ScaleBound(Where(JoinCell(frame, r.id, 2), tolerance), r.coefficient)
    IN [reaction |-> r.id,
        factor |-> r.coefficient,
        flux |-> PlusZero(Where(Num(basic.flux), tolerance)),
        minimum |-> PlusZero(SwapMinimum(lo, hi, r.coefficient)),
        maximum |-> PlusZero(SwapMaximum(lo, hi, r.coefficient))]

\* flux.loc[flux["flux"].abs() < model.tolerance, "flux"] = 0
SnapFlux(x, tolerance) == IF Abs(x) < tolerance THEN 0 ELSE x

\* the branch taken when fva is None
PlainRow(r, solution, tolerance) ==
    LET row == BasicRow(r, solution)
    IN [row EXCEPT !.flux = PlusZero(SnapFlux(row.flux, tolerance))]

\* the table _generate leaves in self._flux
FluxTable(reactions, solution, fva, tolerance) ==
    [i \in 1..Len(reactions) |->
        IF fva.use
        THEN FvaRow(reactions[i], solution, fva.frame, tolerance)
        ELSE PlainRow(reactions[i], solution, tolerance)]

(* ------------------- _generate: the two summary tables ---------------- *)
is_produced(row) == row.flux > 0 \/ (row.flux = 0 /\ row.factor > 0)

\* a consumption mask without the tie-break on the factor
is_consumed_no_tiebreak(row) == row.flux <= 0

is_consumed(row) == row.flux < 0 \/ (row.flux = 0 /\ row.factor < 0)

\* a division guarded against a zero total
PercentGuarded(x, total) ==
    IF total = 0 THEN [num |-> 0, den |-> 1] ELSE [num |-> Abs(x), den |-> total]

\* production / production.sum(): the quotient, non-finite (den = 0) when the
\* column sums to zero
Percent(x, total) == [num |-> Abs(x), den |-> total]

\* flux.loc[mask, [...]].copy() for one row, with its percent column
TableRow(row, has_fva, total) ==
    IF has_fva
    THEN [flux |-> row.flux, minimum |-> row.minimum, maximum |-> row.maximum,
          reaction |-> row.reaction, percent |-> Percent(row.flux, total)]
    ELSE [flux |-> row.flux, reaction |-> row.reaction,
          percent |-> Percent(row.flux, total)]

Columns(has_fva) ==
    IF has_fva THEN <<"flux", "minimum", "maximum", "reaction", "percent">>
    ELSE <<"flux", "reaction", "percent">>

\* the rows of flux the mask selects, in the order of flux
Masked(flux, producing) ==
    SelectSeq(flux, LAMBDA row : IF producing THEN is_produced(row) ELSE is_consumed(row))

\* percentages taken over the whole flux table instead of the selected rows
SummaryTableOverAll(flux, has_fva, producing) ==
    LET selected == Masked(flux, producing)
        total == SumAbs(flux)
    IN [columns |-> Columns(has_fva),
        rows |-> [i \in 1..Len(selected) |-> TableRow(selected[i], has_fva, total)]]

\* producing_fluxes (producing = TRUE) or consuming_fluxes (producing = FALSE)
SummaryTable(flux, has_fva, producing) ==
    LET selected == Masked(flux, producing)
        total == SumAbs(selected)
    IN [columns |-> Columns(has_fva),
        rows |-> [i \in 1..Len(selected) |-> TableRow(selected[i], has_fva, total)]]

\* the object __init__ and _generate leave behind
Generate(m, solution, fva) ==
    LET reactions == ReactionCopies(m)
        flux == FluxTable(reactions, solution, fva, m.tolerance)
    IN [built |-> TRUE,
        metabolite |-> MetaboliteCopy(m),
        reactions |-> reactions,
        producing_fluxes |-> SummaryTable(flux, fva.use, TRUE),
        consuming_fluxes |-> SummaryTable(flux, fva.use, FALSE),
        flux |-> flux]

(* ------------------------------ rendering ----------------------------- *)
\* Reaction.build_reaction_string(names) on the summary's copy of the reaction
Definition(r, names) ==
    [coefficient |-> r.coefficient,
     metabolite |-> IF names THEN r.metabolite.name ELSE r.metabolite.id]

\* a mask that forgets the maximum column
ShownNoMaximum(frame, row, threshold) ==
    IF \E i \in 1..Len(frame.columns) : frame.columns[i] = "minimum"
    THEN \/ Abs(row.flux) >= threshold
         \/ Abs(row.minimum) >= threshold
    ELSE Abs(row.flux) >= threshold

\* the mask of _display_flux
Shown(frame, row, threshold) ==
    IF \E i \in 1..Len(frame.columns) : frame.columns[i] = "minimum"
    THEN \/ Abs(row.flux) >= threshold
         \/ Abs(row.minimum) >= threshold
         \/ Abs(row.maximum) >= threshold
    ELSE Abs(row.flux) >= threshold

\* {r.id: r for r in self._reactions}[rxn_id]
ReactionById(reactions, id) ==
    reactions[CHOOSE i \in 1..Len(reactions) : reactions[i].id = id]

\* the frame _display_flux returns: the shown rows, each with its definition and,
\* with variability data, its range
display_flux(frame, reactions, names, threshold) ==
    LET kept == SelectSeq(frame.rows, LAMBDA row : Shown(frame, row, threshold))
        ranged == \E i \in 1..Len(frame.columns) : frame.columns[i] = "minimum"
    IN [columns |-> IF ranged
                    THEN <<"percent", "flux", "range", "reaction", "definition">>
                    ELSE <<"percent", "flux", "reaction", "definition">>,
        rows |-> [i \in 1..Len(kept) |->
                    LET row == kept[i]
                        def == Definition(ReactionById(reactions, row.reaction), names)
                    IN IF ranged
                       THEN [percent |-> row.percent, flux |-> row.flux,
                             range |-> <<row.minimum, row.maximum>>,
                             reaction |-> row.reaction, definition |-> def]
                       ELSE [percent |-> row.percent, flux |-> row.flux,
                             reaction |-> row.reaction, definition |-> def]]]

\* the filter applied to the frame itself, without the copy
stored_filtered(frame, names, threshold) ==
    [frame EXCEPT !.rows = SelectSeq(frame.rows,
                                     LAMBDA row : Shown(frame, row, threshold))]

\* what _display_flux leaves in the frame it was handed: it filters and
\* annotates a copy (frame.loc[...].copy()) bound to its local name
stored_after_display(frame, names, threshold) == frame

\* "{:.2%}".format: the percentage rounded to two decimals, in hundredths of a
\* percent; "nan%" for the non-finite quotient
FormatPercent(p) ==
    IF p.den = 0 THEN [nan |-> TRUE, hundredths |-> 0]
    ELSE [nan |-> FALSE, hundredths |-> (20000 * p.num + p.den) \div (2 * p.den)]

\* "{:.4G}".format on a fixed-point value below 1000: sign, integer digits and
\* the one decimal digit (0 when the value is whole)
FormatFloat(x) ==
    [negative |-> x < 0, whole |-> Abs(x) \div 2, tenths |-> 5 * (Abs(x) % 2)]

\* header.title()
Title(header) ==
    CASE header = "percent" -> "Percent"
      [] header = "flux" -> "Flux"
      [] header = "range" -> "Range"
      [] header = "reaction" -> "Reaction"
      [] header = "definition" -> "Definition"

\* one line of the rendered table, its cells in column order
FormatRow(row, ranged) ==
    IF ranged
    THEN [Percent |-> FormatPercent(row.percent), Flux |-> FormatFloat(row.flux),
          Range |-> <<FormatFloat(row.range[1]), FormatFloat(row.range[2])>>,
          Reaction |-> row.reaction, Definition |-> row.definition]
    ELSE [Percent |-> FormatPercent(row.percent), Flux |-> FormatFloat(row.flux),
          Reaction |-> row.reaction, Definition |-> row.definition]

\* frame.to_string(header=True, index=False, formatters=...)
string_table(frame) ==
    [header |-> [i \in 1..Len(frame.columns) |-> Title(frame.columns[i])],
     lines |-> [i \in 1..Len(frame.rows) |->
                  FormatRow(frame.rows[i], Len(frame.columns) = 5)]]

\* frame.to_html(header=True, index=False, formatters=...)
html_table(frame) ==
    [header |-> [i \in 1..Len(frame.columns) |-> Title(frame.columns[i])],
     lines |-> [i \in 1..Len(frame.rows) |->
                  FormatRow(frame.rows[i], Len(frame.columns) = 5)]]

\* cobra.flux_analysis.helpers.normalize_cutoff(model, threshold): the threshold
\* widened to at least the model's tolerance
normalize_cutoff(m, threshold) ==
    IF threshold < m.tolerance THEN m.tolerance ELSE threshold

\* Summary.__init__(model=model): the summary keeps the model object it was
\* given, so self._model is the live model
SelfModel == model

\* the threshold to_string filters with
string_threshold(threshold) == normalize_cutoff(SelfModel, threshold)

\* the threshold to_html filters with
html_threshold(threshold) == threshold

\* the value to_string returns
StringValue(s, names, threshold) ==
    [metabolite |-> IF names THEN s.metabolite.name ELSE s.metabolite.id,
     formula |-> s.metabolite.formula,
     production |-> string_table(display_flux(s.producing_fluxes, s.reactions,
                                              names, threshold)),
     consumption |-> string_table(display_flux(s.consuming_fluxes, s.reactions,
                                               names, threshold))]

\* the value to_html returns
HtmlValue(s, names, threshold) ==
    [metabolite |-> IF names THEN s.metabolite.name ELSE s.metabolite.id,
     formula |-> s.metabolite.formula,
     production |-> html_table(display_flux(s.producing_fluxes, s.reactions,
                                            names, threshold)),
     consumption |-> html_table(display_flux(s.consuming_fluxes, s.reactions,
                                             names, threshold))]

\* the summary after a render call
AfterRender(s, names, threshold) ==
    [s EXCEPT !.producing_fluxes = stored_after_display(@, names, threshold),
              !.consuming_fluxes = stored_after_display(@, names, threshold)]

(* ------------------------------- actions ------------------------------ *)
\* the state after MetaboliteSummary(metabolite=..., model=..., solution=..., fva=...)
Build(solution, fva) ==
    /\ summary' = Generate(model, solution, fva)
    /\ args' = [given |-> TRUE, solution |-> solution, fva |-> fva,
                tolerance |-> model.tolerance,
                coefficient |-> model.coefficient,
                metabolite |-> model.metabolite]
    /\ UNCHANGED <<model, returned>>

to_string(names, threshold) ==
    /\ summary.built
    /\ LET t == string_threshold(threshold)
       IN /\ returned' = [format |-> "string", names |-> names,
                          threshold |-> threshold,
                          value |-> StringValue(summary, names, t)]
          /\ summary' = AfterRender(summary, names, t)
    /\ UNCHANGED <<model, args>>

to_html(names, threshold) ==
    /\ summary.built
    /\ LET t == html_threshold(threshold)
       IN /\ returned' = [format |-> "html", names |-> names,
                          threshold |-> threshold,
                          value |-> HtmlValue(summary, names, t)]
          /\ summary' = AfterRender(summary, names, t)
    /\ UNCHANGED <<model, args>>

\* mutations of the live model by its owner
SetTolerance(t) ==
    /\ t # model.tolerance
    /\ model' = [model EXCEPT !.tolerance = t]
    /\ UNCHANGED <<summary, args, returned>>

RenameMetabolite(n) ==
    /\ n # model.metabolite.name
    /\ model' = [model EXCEPT !.metabolite.name = n]
    /\ UNCHANGED <<summary, args, returned>>

AddReaction(r, c) ==
    /\ model.coefficient[r] = 0
    /\ model' = [model EXCEPT !.coefficient[r] = c]
    /\ UNCHANGED <<summary, args, returned>>

RemoveReaction(r) ==
    /\ model.coefficient[r] # 0
    /\ model' = [model EXCEPT !.coefficient[r] = 0]
    /\ UNCHANGED <<summary, args, returned>>

SetCoefficient(r, c) ==
    /\ model.coefficient[r] # 0
    /\ model.coefficient[r] # c
    /\ model' = [model EXCEPT !.coefficient[r] = c]
    /\ UNCHANGED <<summary, args, returned>>

(* ---------------------------- input sets ------------------------------ *)
Pairs(bounds) == {p \in bounds \X bounds : p[1] <= p[2]}

Solutions(ids, values) == [ids -> values]

Frames(ids, bounds) == [ids -> Pairs(bounds) \cup {<<>>}]

NoFva == [use |-> FALSE]

FvaInputs(ids, bounds) ==
    {NoFva} \cup {[use |-> TRUE, frame |-> f] : f \in Frames(ids, bounds)}

Metabolite(n) == [id |-> "glc__D_c", name |-> n, formula |-> "C6H12O6"]

Models ==
    {[tolerance |-> t, metabolite |-> Metabolite("glucose"), coefficient |-> c] :
        t \in Tolerances, c \in [Reactions -> Coeffs \cup {0}]}

\* MetaboliteSummary(metabolite=..., model=..., solution=..., fva=...) on the
\* live model.  solution is the caller's or the one pfba(model) returns; fva is
\* None (use = FALSE) or a frame: the caller's, which may lack reactions, or the
\* one flux_variability_analysis returns for a float.  Fluxes are drawn from
\* values, variability bounds from bounds.
Construct(values, bounds) ==
    /\ ~summary.built
    /\ \E solution \in Solutions(MetaboliteReactions(model), values),
          fva \in FvaInputs(MetaboliteReactions(model), bounds) :
            Build(solution, fva)

(* --------------------------- specifications --------------------------- *)
\* construction over the whole input space
InitBuild ==
    /\ model \in Models
    /\ summary = NoSummary
    /\ args = NoArgs
    /\ returned = NoCall

NextBuild == Construct(Fluxes, Fluxes)

SpecBuild == InitBuild /\ [][NextBuild]_vars

\* the life of one summary next to its live model, on a few inputs
LifeCoeffs == {-2, 4}
LifeFluxes == {Fix(-1), Fix(1)}
LifeBounds == {Fix(1)}

Init ==
    /\ model = [tolerance |-> Fix(1), metabolite |-> Metabolite("glucose"),
                coefficient |-> [r \in Reactions |-> 0]]
    /\ summary = NoSummary
    /\ args = NoArgs
    /\ returned = NoCall

Mutate ==
    \/ \E t \in Tolerances : SetTolerance(t)
    \/ \E n \in Names : RenameMetabolite(n)
    \/ \E r \in Reactions, c \in LifeCoeffs : AddReaction(r, c)
    \/ \E r \in Reactions : RemoveReaction(r)
    \/ \E r \in Reactions, c \in LifeCoeffs : SetCoefficient(r, c)

Render ==
    \/ \E names \in BOOLEAN, threshold \in Thresholds : to_string(names, threshold)
    \/ \E names \in BOOLEAN, threshold \in Thresholds : to_html(names, threshold)

Next ==
    \/ Mutate
    \/ Construct(LifeFluxes, LifeBounds)
    \/ Render

Spec == Init /\ [][Next]_vars

\* the same, the model left alone once the summary is built
NextFrozen ==
    \/ ~summary.built /\ Mutate
    \/ Construct(LifeFluxes, LifeBounds)
    \/ Render

SpecFrozen == Init /\ [][NextFrozen]_vars

(* ------------------------------- claims ------------------------------- *)
\* the model as it was when the summary was constructed
ArgsModel ==
    [tolerance |-> args.tolerance, metabolite |-> args.metabolite,
     coefficient |-> args.coefficient]

\* the reactions of the metabolite when the summary was constructed
ArgsReactions == {r \in Reactions : args.coefficient[r] # 0}

\* the scaled flux flux * factor of reaction r, and its zero-snapped value
ScaledFlux(r) == (args.solution[r] * args.coefficient[r]) \div 2

SnappedFlux(r) == IF Abs(ScaledFlux(r)) < args.tolerance THEN 0 ELSE ScaledFlux(r)

RowIds(rows) == {rows[i].reaction : i \in 1..Len(rows)}

Tables == <<summary.producing_fluxes, summary.consuming_fluxes>>

\* C1: after construction every reaction of the metabolite has its row in
\* exactly one of producing_fluxes and consuming_fluxes, once; it is in
\* producing iff its zero-snapped scaled flux is > 0, or is 0 with factor > 0,
\* and in consuming iff that flux is < 0, or is 0 with factor < 0.
C1_Partition ==
    summary.built =>
        LET P == RowIds(summary.producing_fluxes.rows)
            C == RowIds(summary.consuming_fluxes.rows)
        IN /\ P \cap C = {}
           /\ P \cup C = ArgsReactions
           /\ Len(summary.producing_fluxes.rows) = Cardinality(P)
           /\ Len(summary.consuming_fluxes.rows) = Cardinality(C)
           /\ \A r \in ArgsReactions :
                /\ r \in P <=> \/ SnappedFlux(r) > 0
                               \/ SnappedFlux(r) = 0 /\ args.coefficient[r] > 0
                /\ r \in C <=> \/ SnappedFlux(r) < 0
                               \/ SnappedFlux(r) = 0 /\ args.coefficient[r] < 0

\* C1's case: two reactions carry a non-zero flux that is snapped to zero, and
\* the tie-break sends one to producing and the other to consuming
C1_Witness ==
    /\ summary.built
    /\ \E r \in RowIds(summary.producing_fluxes.rows) :
          ScaledFlux(r) # 0 /\ SnappedFlux(r) = 0
    /\ \E r \in RowIds(summary.consuming_fluxes.rows) :
          ScaledFlux(r) # 0 /\ SnappedFlux(r) = 0

RECURSIVE SumNum(_)
SumNum(rows) == IF rows = <<>> THEN 0 ELSE Head(rows).percent.num + SumNum(Tail(rows))

RECURSIVE Total(_)
Total(rows) == IF rows = <<>> THEN 0 ELSE Abs(Head(rows).flux) + Total(Tail(rows))

\* C2: in a table whose total |scaled flux| is non-zero, every row's percent is
\* |flux| over the total of the table as constructed, so it lies in [0, 1] and
\* the percents sum to 1; a rendered row carries the stored percent of its
\* reaction whatever the threshold.
C2_Percent ==
    summary.built =>
        \A k \in 1..2 :
            \A rows \in {Tables[k].rows}, total \in {Total(Tables[k].rows)} :
                total # 0 =>
                    /\ \A i \in 1..Len(rows) :
                          /\ rows[i].percent.den = total
                          /\ rows[i].percent.num = Abs(rows[i].flux)
                          /\ 0 <= rows[i].percent.num
                          /\ rows[i].percent.num <= rows[i].percent.den
                    /\ SumNum(rows) = total
                    /\ \A names \in BOOLEAN, threshold \in Thresholds :
                          \A shown \in {display_flux(Tables[k], summary.reactions,
                                                     names, threshold).rows} :
                              \A j \in 1..Len(shown) :
                                  \E i \in 1..Len(rows) :
                                      /\ rows[i].reaction = shown[j].reaction
                                      /\ rows[i].percent = shown[j].percent

\* C2's case: a table of two rows with different non-zero fluxes, one of which
\* a threshold hides
C2_Witness ==
    /\ summary.built
    /\ \E k \in 1..2 :
          LET rows == Tables[k].rows
          IN /\ Len(rows) = 2
             /\ rows[1].flux # 0 /\ rows[2].flux # 0
             /\ Abs(rows[1].flux) # Abs(rows[2].flux)
             /\ \E threshold \in Thresholds :
                   Len(display_flux(Tables[k], summary.reactions, FALSE,
                                    threshold).rows) = 1

\* the row of reaction r in the table _generate built
FluxRow(r) ==
    summary.flux[CHOOSE i \in 1..Len(summary.flux) : summary.flux[i].reaction = r]

\* the reactions of the metabolite the variability frame has a pair for
Bounded == {r \in ArgsReactions : args.fva.frame[r] # <<>>}

\* a variability bound as zero-snapping leaves it: 0 when its absolute value
\* is below the tolerance
SnappedBound(x) == IF Abs(x) < args.tolerance THEN 0 ELSE x

\* C3 as stated: with bounds (lo, hi), lo <= hi, for every reaction, the stored
\* bounds satisfy
\* minimum <= maximum, and are (factor*hi, factor*lo) for factor < 0 and
\* (factor*lo, factor*hi) for factor > 0.
C3_Original ==
    summary.built /\ args.fva.use /\ Bounded = ArgsReactions =>
        \A r \in Bounded :
            LET lo == args.fva.frame[r][1]
                hi == args.fva.frame[r][2]
                f == args.coefficient[r]
            IN /\ FluxRow(r).minimum <= FluxRow(r).maximum
               /\ f < 0 => /\ FluxRow(r).minimum = (f * hi) \div 2
                           /\ FluxRow(r).maximum = (f * lo) \div 2
               /\ f > 0 => /\ FluxRow(r).minimum = (f * lo) \div 2
                           /\ FluxRow(r).maximum = (f * hi) \div 2

\* C3, amended: with bounds (lo, hi), lo <= hi, the stored bounds satisfy
\* minimum <= maximum for every sign of the factor; with lo' and hi' the bounds
\* after a bound of absolute value below the tolerance is replaced by 0, they
\* are (factor*hi', factor*lo') for factor < 0 and (factor*lo', factor*hi')
\* for factor > 0.
C3_Amended ==
    summary.built /\ args.fva.use =>
        \A r \in Bounded :
            LET lo == SnappedBound(args.fva.frame[r][1])
                hi == SnappedBound(args.fva.frame[r][2])
                f == args.coefficient[r]
            IN /\ FluxRow(r).minimum <= FluxRow(r).maximum
               /\ f < 0 => /\ FluxRow(r).minimum = (f * hi) \div 2
                           /\ FluxRow(r).maximum = (f * lo) \div 2
               /\ f > 0 => /\ FluxRow(r).minimum = (f * lo) \div 2
                           /\ FluxRow(r).maximum = (f * hi) \div 2

\* C3's case: a negative factor and bounds lo < 0 < hi that both reach the
\* tolerance: the stored minimum is factor*hi, the stored maximum factor*lo
C3_Witness ==
    /\ summary.built /\ args.fva.use
    /\ \E r \in Bounded :
          /\ args.coefficient[r] < 0
          /\ args.fva.frame[r][1] < 0
          /\ args.fva.frame[r][2] > 0
          /\ FluxRow(r).minimum = (args.coefficient[r] * args.fva.frame[r][2]) \div 2
          /\ FluxRow(r).maximum = (args.coefficient[r] * args.fva.frame[r][1]) \div 2
          /\ FluxRow(r).minimum < 0
          /\ FluxRow(r).maximum > 0

\* C7 as stated: when variability data is in use, a summary exists only if
\* every reaction of the metabolite has a (minimum, maximum) pair.
C7_MissingBoundFails ==
    summary.built /\ args.fva.use => Bounded = ArgsReactions

\* C9 as stated (no variability pair missing): every stored flux, minimum and
\* maximum is zero or at least the tolerance in absolute value, and is zero only if the scaled quantity
\* (flux*factor, bound*factor) is below the tolerance in absolute value.
C9_ZeroSnapped ==
    summary.built /\ (args.fva.use => Bounded = ArgsReactions) =>
        \A r \in ArgsReactions :
            LET f == args.coefficient[r]
                row == FluxRow(r)
            IN /\ row.flux = 0 \/ Abs(row.flux) >= args.tolerance
               /\ row.flux = 0 => Abs(ScaledFlux(r)) < args.tolerance
               /\ args.fva.use /\ r \in Bounded =>
                    LET lo == (args.fva.frame[r][1] * f) \div 2
                        hi == (args.fva.frame[r][2] * f) \div 2
                    IN /\ row.minimum = 0 \/ Abs(row.minimum) >= args.tolerance
                       /\ row.maximum = 0 \/ Abs(row.maximum) >= args.tolerance
                       /\ row.minimum = 0 =>
                            Abs(IF f < 0 THEN hi ELSE lo) < args.tolerance
                       /\ row.maximum = 0 =>
                            Abs(IF f < 0 THEN lo ELSE hi) < args.tolerance

\* C10: a table whose total |scaled flux| is zero has a non-finite percent in
\* every row, while the other table's percents are those of its own total; a
\* zero-flux row of a table whose total is non-zero has percent exactly 0; a
\* metabolite without reactions gets two empty tables.
C10_Degenerate ==
    summary.built =>
        /\ \A k \in 1..2 :
              LET rows == Tables[k].rows
              IN \A i \in 1..Len(rows) :
                    /\ Total(rows) = 0 => rows[i].percent.den = 0
                    /\ Total(rows) # 0 =>
                          /\ rows[i].percent.den = Total(rows)
                          /\ rows[i].flux = 0 =>
                                FormatPercent(rows[i].percent) =
                                    [nan |-> FALSE, hundredths |-> 0]
        /\ ArgsReactions = {} => Tables[1].rows = <<>> /\ Tables[2].rows = <<>>

\* C10's case: one table has rows and a zero total, the other a non-zero total
C10_Witness ==
    /\ summary.built
    /\ \E k \in 1..2 :
          /\ Tables[k].rows # <<>>
          /\ Total(Tables[k].rows) = 0
          /\ Total(Tables[3 - k].rows) # 0

\* C8: _display_flux keeps a row iff |flux| >= threshold or, with variability
\* bounds, |minimum| >= threshold or |maximum| >= threshold; so for thresholds
\* t1 <= t2 the rows shown with t2 are among the rows shown with t1.
C8_Monotone ==
    summary.built =>
        \A k \in 1..2, t \in Thresholds :
            \A shown \in {RowIds(display_flux(Tables[k], summary.reactions,
                                              FALSE, t).rows)} :
                /\ \A i \in 1..Len(Tables[k].rows) :
                      LET row == Tables[k].rows[i]
                      IN row.reaction \in shown <=>
                            \/ Abs(row.flux) >= t
                            \/ /\ args.fva.use
                               /\ \/ Abs(row.minimum) >= t
                                  \/ Abs(row.maximum) >= t
                /\ \A t2 \in Thresholds :
                      t <= t2 =>
                        RowIds(display_flux(Tables[k], summary.reactions,
                                            FALSE, t2).rows) \subseteq shown

\* C8's case: a row below the threshold in flux that its maximum alone keeps,
\* next to a row the same threshold hides
C8_Witness ==
    /\ summary.built /\ args.fva.use
    /\ \E k \in 1..2, t \in Thresholds :
          LET rows == Tables[k].rows
          IN /\ Len(rows) = 2
             /\ \E i \in 1..2 :
                   /\ Abs(rows[i].flux) < t
                   /\ Abs(rows[i].minimum) < t
                   /\ Abs(rows[i].maximum) >= t
                   /\ Abs(rows[3 - i].flux) < t
                   /\ Abs(rows[3 - i].minimum) < t
                   /\ Abs(rows[3 - i].maximum) < t
                   /\ Abs(rows[3 - i].maximum) > 0

\* the summary as __init__ and _generate left it
Constructed == Generate(ArgsModel, args.solution, args.fva)

LineIds(table) == {table.lines[i].Reaction : i \in 1..Len(table.lines)}

Ascending(table) ==
    \A i \in 1..Len(table.lines), j \in 1..Len(table.lines) :
        i < j => table.lines[i].Reaction < table.lines[j].Reaction

\* C4 as stated: the markup rendering just returned has, in each section, the
\* rows the text rendering has for the same names flag and caller threshold.
C4_SameRows ==
    returned.format = "html" =>
        \A text \in {StringValue(summary, returned.names,
                                 string_threshold(returned.threshold))} :
            /\ LineIds(returned.value.production) = LineIds(text.production)
            /\ LineIds(returned.value.consumption) = LineIds(text.consumption)

\* C5 as stated: whatever the live model went through since construction, the
\* two tables are those built at construction, and the output a render call
\* returned is the one the same call returns on the model as it was then.
C5_Snapshot ==
    summary.built =>
        /\ summary.producing_fluxes = Constructed.producing_fluxes
        /\ summary.consuming_fluxes = Constructed.consuming_fluxes
        /\ returned.format = "string" =>
              returned.value =
                  StringValue(Constructed, returned.names,
                              normalize_cutoff(ArgsModel, returned.threshold))
        /\ returned.format = "html" =>
              returned.value =
                  HtmlValue(Constructed, returned.names,
                            html_threshold(returned.threshold))

\* C6: with the model left alone, after any render calls the summary (tables,
\* columns, rows, copies) is the one construction built; the value a render
\* call returned is the one its arguments give on the summary as constructed,
\* so equal arguments give equal output; rendered rows ascend by reaction id.
C6_ReadOnly ==
    summary.built =>
        \A built \in {Constructed} :
            /\ summary = built
            /\ returned.format = "string" =>
                  /\ returned.value =
                        StringValue(built, returned.names,
                                    string_threshold(returned.threshold))
                  /\ Ascending(returned.value.production)
                  /\ Ascending(returned.value.consumption)
            /\ returned.format = "html" =>
                  /\ returned.value =
                        HtmlValue(built, returned.names,
                                  html_threshold(returned.threshold))
                  /\ Ascending(returned.value.production)
                  /\ Ascending(returned.value.consumption)

\* C6's case: a render call has returned a table of one line while the stored
\* table still holds its two rows
C6_Witness ==
    /\ summary.built
    /\ returned.format = "string"
    /\ Len(summary.producing_fluxes.rows) = 2
    /\ Len(returned.value.production.lines) = 1

====
